---- MODULE Spec2Model ----
(***************************************************************************)
(* Key detection of music21: analysis/keyDetect.py (weight profiles,       *)
(* convolution, ranking, single-window detection, windowed driver) and the *)
(* parts of key.py that the detection result meets; further down, the     *)
(* conversions between pitches and numbers of sharps, the KeySignature and *)
(* the Key (construction, getScale, tonalCertainty) of key.py.             *)
(*                                                                         *)
(* Python lists of length 12 are functions on 0..11, so that an index of   *)
(* the model is the index of the source.  Weights are held in hundredths   *)
(* (6.35 is 635); a convolution score is then a whole number of hundredths *)
(* and every comparison of scores is exact.                                *)
(***************************************************************************)
EXTENDS Integers, Sequences, FiniteSets

VARIABLES
    pcDistribution,   \* the 12-element pitch-class distribution under analysis
    op,               \* the function of keyDetect.py that ran last ("idle": none yet)
    isMajor,          \* the isMajor argument of that call
    keyResults,       \* the list returned by convoluteDistribution
    likelyKeys,       \* the list returned by getLikelyKeys
    likelyKey,        \* the pair returned by singleKeyDetect
    difference,       \* the outcome of getDifferenceDebug
    work,             \* windowed driver: the score, a list of measures
    windowSize,       \* windowed driver: the windowSize argument
    wpc,              \* windowed driver: position in windowKeyDetect
    wi,               \* windowed driver: the loop variable i
    key,              \* windowed driver: the list key being filled
    failed,           \* windowed driver: the windows whose analysis raised
    held,             \* getWeights: the lists callers still hold
    ret,              \* getWeights: the value the last call returned
    mutations,        \* getWeights: how often a caller changed a held list
    cvValue,          \* conversion: the value given to pitchToSharps
    cvMode,           \* conversion: the mode given to pitchToSharps
    cvSharps,         \* conversion: the outcome of pitchToSharps
    cvTonic,          \* conversion: the pitch KeySignature.pitchAndMode gives back
    cpc,              \* conversion: how far the round trip has run
    sharpsToPitchCache, \* key.py: the module-level dictionary _sharpsToPitchCache
    stpRet,           \* sharpsToPitch: the argument and the result of the last call
    stpCalls,         \* sharpsToPitch: the number of calls so far
    ks,               \* KeySignature: the object (_sharps, _mode, _alteredPitchesCached)
    kop,              \* KeySignature: the member used last ("idle": none yet)
    karg,             \* KeySignature: the argument of that use
    kret,             \* KeySignature: what that use returned
    kchanges,         \* KeySignature: assignments and transpositions so far
    kstale,           \* KeySignature: the list that was cached when it last changed
    heldAcc           \* KeySignature: the accidentals callers got from accidentalByStep

detectVars == <<pcDistribution, op, isMajor, keyResults, likelyKeys, likelyKey, difference>>
windowVars == <<work, windowSize, wpc, wi, key, failed>>
weightVars == <<held, ret, mutations>>
convertVars == <<cvValue, cvMode, cvSharps, cvTonic, cpc>>
sharpsVars == <<sharpsToPitchCache, stpRet, stpCalls>>
keySigVars == <<ks, kop, karg, kret, kchanges, kstale, heldAcc>>
keyVars == <<convertVars, sharpsVars, keySigVars>>
vars == <<detectVars, windowVars, weightVars, keyVars>>

None == "None"

PitchClasses == 0..11

(***************************************************************************)
(* Bounds of the model.                                                    *)
(***************************************************************************)
\* most notes counted in a distribution drawn for the pure functions
MaxNotes == 3
\* largest equal count put on each note of the C major triad
MaxTriadCount == 10
\* most measures in a score given to the windowed driver
MaxMeasures == 3
\* most calls of getWeights in one run
MaxCalls == 2
\* most changes callers make to the lists they hold
MaxMutations == 2

(***************************************************************************)
(* getWeights: the two key profiles.                                       *)
(***************************************************************************)
ListOf(s) == [j \in 0..(Len(s) - 1) |-> s[j + 1]]

MajorWeights == ListOf(<<635, 233, 348, 233, 438, 409, 252, 519, 239, 366, 229, 288>>)

MinorWeights == ListOf(<<633, 268, 352, 538, 260, 353, 254, 475, 398, 269, 334, 317>>)

\* faulty variant: one module-level list per mode, handed out by reference, so that a
\* caller's change to a list it holds shows in every later call
getWeightsShared(major) ==
    LET mine == {k \in DOMAIN held : held[k].isMajor = major}
    IN  IF mine = {} THEN (IF major THEN MajorWeights ELSE MinorWeights)
        ELSE held[CHOOSE k \in mine : \A n \in mine : k <= n].list

\* faulty variant: the minor profile returned for both modes
getWeightsMinorOnly(major) == MinorWeights

getWeights(major) ==
    IF major THEN MajorWeights ELSE MinorWeights

(***************************************************************************)
(* convoluteDistribution                                                   *)
(***************************************************************************)
RECURSIVE SumTo(_, _)
\* f[0] + ... + f[n]
SumTo(f, n) == IF n < 0 THEN 0 ELSE SumTo(f, n - 1) + f[n]

convoluteDistribution(pcDist, major) ==
    LET toneWeights == getWeights(major)
    IN  [i \in 0..11 |->
            SumTo([j \in 0..11 |-> toneWeights[(j + i) % 12] * pcDist[j]], 11)]

(***************************************************************************)
(* getLikelyKeys                                                           *)
(***************************************************************************)
\* pitch.Pitch(n) for a number n: the pitch of pitch class n
Pitch(n) == n % 12

\* sorted(l) followed by reverse(): the values of l in descending order
SortedReversed(l) ==
    [k \in DOMAIN l |->
        CHOOSE v \in {l[j] : j \in DOMAIN l} :
            /\ Cardinality({j \in DOMAIN l : l[j] > v}) <= k
            /\ k < Cardinality({j \in DOMAIN l : l[j] >= v})]

\* l.index(x): the first position holding x
Index(l, x) == CHOOSE j \in DOMAIN l : l[j] = x /\ \A k \in DOMAIN l : k < j => l[k] # x

getLikelyKeys(results) ==
    LET a == SortedReversed(results)
    IN  [i \in 0..11 |-> [pitch |-> Pitch(Index(results, a[i])), points |-> a[i]]]

(***************************************************************************)
(* singleKeyDetect                                                         *)
(***************************************************************************)
\* faulty variant: the comparison of the two leaders turned round
singleKeyDetectLess(pcDist) ==
    LET likelyKeysMajor == getLikelyKeys(convoluteDistribution(pcDist, TRUE))
        likelyKeysMinor == getLikelyKeys(convoluteDistribution(pcDist, FALSE))
    IN  IF likelyKeysMajor[0].points < likelyKeysMinor[0].points
        THEN <<likelyKeysMajor[0].pitch, "Major">>
        ELSE <<likelyKeysMinor[0].pitch, "Minor">>

singleKeyDetect(pcDist) ==
    LET keyResultsMajor == convoluteDistribution(pcDist, TRUE)
        likelyKeysMajor == getLikelyKeys(keyResultsMajor)
        keyResultsMinor == convoluteDistribution(pcDist, FALSE)
        likelyKeysMinor == getLikelyKeys(keyResultsMinor)
    IN  IF likelyKeysMajor[0].points > likelyKeysMinor[0].points
        THEN <<likelyKeysMajor[0].pitch, "Major">>
        ELSE <<likelyKeysMinor[0].pitch, "Minor">>

(***************************************************************************)
(* getDifferenceDebug: the correlation coefficient of the distribution     *)
(* with each rotation of the profile.  The averages are kept exact by      *)
(* scaling every deviation by 12: devWeights is 12 * 100 * (weight -       *)
(* profileAverage), devCounts is 12 * (count - histogramAverage).  A score *)
(* soln[i] = top / (bottomRight * bottomLeft) ** .5 is held as its three   *)
(* parts, and the outcome of a call as the exception raised, or None, and  *)
(* the list returned.  The division stands inside the inner loop, so it runs after     *)
(* every j, on the sums as far as j, and raises when that divisor is 0.    *)
(***************************************************************************)
ZeroDivisionError == "ZeroDivisionError"

\* 12 * (l[k] - average of l), for every k
Deviations(l) ==
    LET total == SumTo(l, 11)
    IN  [k \in 0..11 |-> 12 * l[k] - total]

\* f[0] + ... + f[j], for every j
RunningSums(f) ==
    LET run[j \in 0..11] == IF j = 0 THEN f[0] ELSE run[j - 1] + f[j]
    IN  run

\* top[i] after the inner loop has run for 0..j, for every j
TopAt(devWeights, devCounts, i) ==
    RunningSums([j \in 0..11 |-> devWeights[(j + i) % 12] * devCounts[j]])

\* bottomRight[i] after the inner loop has run for 0..j, for every j
BottomRightAt(devWeights, i) ==
    RunningSums([j \in 0..11 |-> devWeights[(j + i) % 12] * devWeights[(j + i) % 12]])

\* bottomLeft[i] after the inner loop has run for 0..j, for every j
BottomLeftAt(devCounts) ==
    RunningSums([j \in 0..11 |-> devCounts[j] * devCounts[j]])

getDifferenceDebug(results, pcDist, major) ==
    LET toneWeights == getWeights(major)
        devWeights == Deviations(toneWeights)
        devCounts == Deviations(pcDist)
        top == [i \in 0..11 |-> TopAt(devWeights, devCounts, i)]
        bottomRight == [i \in 0..11 |-> BottomRightAt(devWeights, i)]
        bottomLeft == BottomLeftAt(devCounts)
    IN  IF \E i \in 0..11 : \E j \in 0..11 : bottomRight[i][j] = 0 \/ bottomLeft[j] = 0
        THEN [raised |-> ZeroDivisionError, soln |-> <<>>]
        ELSE [raised |-> None,
              soln |-> [i \in 0..11 |->
                          [top |-> top[i][11],
                           bottomRight |-> bottomRight[i][11],
                           bottomLeft |-> bottomLeft[11]]]]

(***************************************************************************)
(* Key.__init__: the optionally filled attributes of a new Key.            *)
(***************************************************************************)
Key(tonic, mode) ==
    [tonic |-> tonic, mode |-> mode,
     correlationCoefficient |-> None, alternateInterpretations |-> <<>>]

(***************************************************************************)
(* Inputs of the pure functions: every histogram of at most MaxNotes       *)
(* notes, the C major triad with an equal count on C, E and G, the even    *)
(* distributions, and twelve notes spread evenly but for one.              *)
(***************************************************************************)
Silent == [j \in 0..11 |-> 0]

AddNote(d, p) == [d EXCEPT ![p] = @ + 1]

RECURSIVE Histograms(_)
Histograms(n) ==
    IF n = 0 THEN {Silent}
    ELSE LET H == Histograms(n - 1)
         IN  H \cup {AddNote(d, p) : d \in H, p \in PitchClasses}

Triad(root, count) ==
    [j \in 0..11 |-> IF j \in {root, (root + 4) % 12, (root + 7) % 12} THEN count ELSE 0]

CMajorTriads == {Triad(0, c) : c \in 1..MaxTriadCount}

\* every pitch class counted c times
Even(c) == [j \in 0..11 |-> c]

\* one note of every pitch class, with the note at pitch class a moved to b
NearlyEven ==
    {[Even(1) EXCEPT ![m[1]] = 0, ![m[2]] = 2] :
        m \in {x \in PitchClasses \X PitchClasses : x[1] # x[2]}}

EvenDistributions == {Even(c) : c \in 0..MaxNotes}

Distributions == Histograms(MaxNotes) \cup CMajorTriads \cup EvenDistributions \cup NearlyEven

\* d with every count moved up by r pitch classes: the result at (j + r) % 12 is d[j]
Rotate(d, r) == [j \in 0..11 |-> d[(j - r) % 12]]

(***************************************************************************)
(* Specification Spec: the functions of the correlation engine applied to  *)
(* a distribution.                                                         *)
(***************************************************************************)
WindowIdle ==
    /\ work = <<>>
    /\ windowSize = 1
    /\ wpc = "idle"
    /\ wi = 0
    /\ key = None
    /\ failed = {}

WeightsIdle ==
    /\ held = <<>>
    /\ ret = None
    /\ mutations = 0

ConvertIdle ==
    /\ cvValue = None
    /\ cvMode = None
    /\ cvSharps = None
    /\ cvTonic = None
    /\ cpc = "idle"

SharpsIdle ==
    /\ sharpsToPitchCache = <<>>
    /\ stpRet = None
    /\ stpCalls = 0

KeySigIdle ==
    /\ ks = None
    /\ kop = "idle"
    /\ karg = None
    /\ kret = None
    /\ kchanges = 0
    /\ kstale = <<>>
    /\ heldAcc = <<>>

KeyIdle == ConvertIdle /\ SharpsIdle /\ KeySigIdle

DetectIdle ==
    /\ op = "idle"
    /\ isMajor = None
    /\ keyResults = None
    /\ likelyKeys = None
    /\ likelyKey = None
    /\ difference = None

Init ==
    /\ pcDistribution \in Distributions
    /\ DetectIdle
    /\ WindowIdle
    /\ WeightsIdle
    /\ KeyIdle

ConvoluteDistribution(major) ==
    /\ op = "idle"
    /\ op' = "convoluteDistribution"
    /\ isMajor' = major
    /\ keyResults' = convoluteDistribution(pcDistribution, major)
    /\ UNCHANGED <<pcDistribution, likelyKeys, likelyKey, difference>>
    /\ UNCHANGED <<windowVars, weightVars, keyVars>>

GetLikelyKeys ==
    /\ op = "convoluteDistribution"
    /\ op' = "getLikelyKeys"
    /\ likelyKeys' = getLikelyKeys(keyResults)
    /\ UNCHANGED <<pcDistribution, isMajor, keyResults, likelyKey, difference>>
    /\ UNCHANGED <<windowVars, weightVars, keyVars>>

GetDifferenceDebug ==
    /\ op = "convoluteDistribution"
    /\ op' = "getDifferenceDebug"
    /\ difference' = getDifferenceDebug(keyResults, pcDistribution, isMajor)
    /\ UNCHANGED <<pcDistribution, isMajor, keyResults, likelyKeys, likelyKey>>
    /\ UNCHANGED <<windowVars, weightVars, keyVars>>

SingleKeyDetect ==
    /\ op = "idle"
    /\ op' = "singleKeyDetect"
    /\ likelyKey' = singleKeyDetect(pcDistribution)
    /\ UNCHANGED <<pcDistribution, isMajor, keyResults, likelyKeys, difference>>
    /\ UNCHANGED <<windowVars, weightVars, keyVars>>

Next ==
    \/ \E major \in BOOLEAN : ConvoluteDistribution(major)
    \/ GetLikelyKeys
    \/ GetDifferenceDebug
    \/ SingleKeyDetect

Spec == Init /\ [][Next]_vars

(***************************************************************************)
(* Claims about the correlation engine, checked under Spec.                *)
(***************************************************************************)
\* the score the specification gives candidate tonic i:
\* the sum over j of w[(j - i) mod 12] * d[j]
SpecScore(d, major, i) ==
    SumTo([j \in 0..11 |-> getWeights(major)[(j - i) % 12] * d[j]], 11)

\* C1: convoluteDistribution returns 12 scores, scores[i] being the sum over j
\* of w[(j - i) mod 12] * d[j] for every candidate tonic i
C1_ConvolutionFormula ==
    op = "convoluteDistribution" =>
        /\ DOMAIN keyResults = 0..11
        /\ \A i \in 0..11 : keyResults[i] = SpecScore(pcDistribution, isMajor, i)

\* C2: rotating the distribution by r positions rotates the scores by r
\* positions: scores'[i] = scores[(i - r) mod 12]
C2_TranslationCovariant ==
    op = "convoluteDistribution" =>
        \A r \in 0..11 : \A i \in 0..11 :
            convoluteDistribution(Rotate(pcDistribution, r), isMajor)[i]
                = keyResults[(i - r) % 12]

\* C3: a distribution concentrated entirely and equally on C, E and G is
\* detected as pitch class 0, Major
C3_CMajorTriad ==
    (op = "singleKeyDetect" /\ pcDistribution \in CMajorTriads) =>
        likelyKey = <<0, "Major">>

C3_Witness ==
    /\ op = "singleKeyDetect"
    /\ pcDistribution = Triad(0, 10)
    /\ likelyKey = <<0, "Major">>

\* the convolution score of the candidate (pitch class, mode)
ScoreOf(d, candidate) ==
    convoluteDistribution(d, candidate[2] = "Major")[candidate[1]]

Candidates == PitchClasses \X {"Major", "Minor"}

\* C4: the pair singleKeyDetect returns has a convolution score greater than
\* or equal to each of the 24 scores of the distribution
C4_ReturnsBestScore ==
    op = "singleKeyDetect" =>
        \A c \in Candidates :
            ScoreOf(pcDistribution, likelyKey) >= ScoreOf(pcDistribution, c)

\* a detection whose winner is minor and beats the best major candidate outright
C4_Witness ==
    /\ op = "singleKeyDetect"
    /\ likelyKey[2] = "Minor"
    /\ \A p \in PitchClasses :
          ScoreOf(pcDistribution, likelyKey) > ScoreOf(pcDistribution, <<p, "Major">>)

\* C5: getLikelyKeys returns 12 pairs whose pitch classes are a permutation of
\* 0..11, each with the score of its own pitch class, in order of
\* non-increasing score, equal scores in order of ascending pitch class (so
\* that ranking again changes nothing)
C5_RankingIsPermutation ==
    op = "getLikelyKeys" =>
        /\ DOMAIN likelyKeys = 0..11
        /\ {likelyKeys[k].pitch : k \in 0..11} = PitchClasses
        /\ \A k \in 0..11 : likelyKeys[k].points = keyResults[likelyKeys[k].pitch]
        /\ \A k \in 0..10 :
              \/ likelyKeys[k].points > likelyKeys[k + 1].points
              \/ /\ likelyKeys[k].points = likelyKeys[k + 1].points
                 /\ likelyKeys[k].pitch < likelyKeys[k + 1].pitch

IsConstant(d) == \A j \in 0..11 : d[j] = d[0]

\* C8: getDifferenceDebug ends in the defined outcome DegenerateDistribution,
\* never in a division by zero, exactly when the distribution is constant; for
\* every other distribution it returns 12 scores
C8_DegenerateExactlyWhenConstant ==
    op = "getDifferenceDebug" =>
        IF IsConstant(pcDistribution)
        THEN difference.raised = "DegenerateDistribution"
        ELSE difference.raised = None /\ DOMAIN difference.soln = 0..11

\* C9: the result of a detection carries the winner's score as its correlation
\* score, and the other 23 candidates as alternateInterpretations in order of
\* descending score
C9_ResultCarriesAlternates ==
    op = "singleKeyDetect" =>
        LET result == Key(likelyKey[1], likelyKey[2])
            alternates == result.alternateInterpretations
        IN  /\ result.correlationCoefficient # None
            /\ result.correlationCoefficient = ScoreOf(pcDistribution, likelyKey)
            /\ Len(alternates) = 23
            /\ {<<alternates[k].tonic, alternates[k].mode>> : k \in 1..23}
                  = Candidates \ {likelyKey}
            /\ \A k \in 1..23 :
                  alternates[k].correlationCoefficient
                      = ScoreOf(pcDistribution, <<alternates[k].tonic, alternates[k].mode>>)
            /\ \A k \in 1..22 :
                  alternates[k].correlationCoefficient
                      >= alternates[k + 1].correlationCoefficient

(***************************************************************************)
(* windowKeyDetect.  A score is its list of measures, a measure the        *)
(* pitch-class histogram of its notes: a dictionary from the pitch classes *)
(* that sound in it to their counts.                                       *)
(***************************************************************************)
\* the histogram in which each pitch class of pcs is counted count times
Chord(pcs, count) == [p \in pcs |-> count]

MeasureKinds ==
    {Chord({}, 1), Chord({0, 4, 7}, 1), Chord({2, 7, 11}, 1), Chord({9}, 2), Chord({0, 5, 9}, 1)}

RECURSIVE ScoresOfLength(_)
ScoresOfLength(n) ==
    IF n = 0 THEN {<<>>}
    ELSE {Append(sc, m) : sc \in ScoresOfLength(n - 1), m \in MeasureKinds}

Scores == UNION {ScoresOfLength(n) : n \in 0..MaxMeasures}

\* getMeasureRange(start, end): the measures at positions start .. end - 1
getMeasureRange(score, start, end) ==
    [k \in 1..(end - start) |-> score[start + k]]

RECURSIVE pitchAttributeCount(_)
\* the histogram of a list of measures: a count for every pitch class that
\* sounds in one of them, and no entry for the others
pitchAttributeCount(measures) ==
    IF measures = <<>> THEN <<>>
    ELSE LET n == Len(measures)
             before == pitchAttributeCount(SubSeq(measures, 1, n - 1))
             last == measures[n]
         IN  [p \in DOMAIN before \cup DOMAIN last |->
                 (IF p \in DOMAIN before THEN before[p] ELSE 0)
                 + (IF p \in DOMAIN last THEN last[p] ELSE 0)]

\* lines 200-205: current.get(j) is None exactly when current has no key j
PcDist(current) ==
    [j \in 0..11 |-> IF j \notin DOMAIN current THEN 0 ELSE current[j]]

\* [0] * n, and the positions of range(n): none when n <= 0
ListOfZeros(n) == [k \in 0..(n - 1) |-> 0]

\* faulty variant: the last window left out
WindowCountShort(max, size) == max - size

\* max - windowSize + 1, the length given to key and the end of the range of i
WindowCount(max, size) == max - size + 1

InitWindow ==
    /\ work \in Scores
    /\ windowSize \in 1..(MaxMeasures + 1)
    /\ wpc = "idle"
    /\ wi = 0
    /\ key = None
    /\ failed = {}
    /\ pcDistribution = Silent
    /\ DetectIdle
    /\ WeightsIdle
    /\ KeyIdle

\* lines 191-193
WindowKeyDetectCall ==
    /\ wpc = "idle"
    /\ wpc' = "loop"
    /\ wi' = 0
    /\ key' = ListOfZeros(WindowCount(Len(work), windowSize))
    /\ UNCHANGED <<work, windowSize, failed>>
    /\ UNCHANGED <<detectVars, weightVars, keyVars>>

\* lines 198-207, one turn of the loop
WindowKeyDetectStep ==
    /\ wpc = "loop"
    /\ wi < WindowCount(Len(work), windowSize)
    /\ LET current == pitchAttributeCount(getMeasureRange(work, wi, wi + windowSize))
           pcDist == PcDist(current)
       IN  key' = [key EXCEPT ![wi] = singleKeyDetect(pcDist)]
    /\ wi' = wi + 1
    /\ UNCHANGED <<work, windowSize, wpc, failed>>
    /\ UNCHANGED <<detectVars, weightVars, keyVars>>

\* line 209
WindowKeyDetectReturn ==
    /\ wpc = "loop"
    /\ wi >= WindowCount(Len(work), windowSize)
    /\ wpc' = "returned"
    /\ UNCHANGED <<work, windowSize, wi, key, failed>>
    /\ UNCHANGED <<detectVars, weightVars, keyVars>>

\* lines 199-207 when the analysis of window i raises: no statement of
\* windowKeyDetect catches, so the exception leaves the function and the list
\* key, local to the call, is lost
WindowKeyDetectRaise ==
    /\ wpc = "loop"
    /\ wi < WindowCount(Len(work), windowSize)
    /\ failed' = failed \cup {wi}
    /\ wpc' = "raised"
    /\ key' = None
    /\ UNCHANGED <<work, windowSize, wi>>
    /\ UNCHANGED <<detectVars, weightVars, keyVars>>

NextWindow ==
    \/ WindowKeyDetectCall
    \/ WindowKeyDetectStep
    \/ WindowKeyDetectReturn

SpecWindow == InitWindow /\ [][NextWindow]_vars

NextWindowFail ==
    \/ WindowKeyDetectCall
    \/ WindowKeyDetectStep
    \/ WindowKeyDetectReturn
    \/ WindowKeyDetectRaise

SpecWindowFail == InitWindow /\ [][NextWindowFail]_vars

(***************************************************************************)
(* Claims about the windowed driver.                                       *)
(***************************************************************************)
RECURSIVE CountInMeasures(_, _, _)
\* how often pitch class j sounds in measures first .. last (1-based) of work
CountInMeasures(j, first, last) ==
    IF last < first THEN 0
    ELSE CountInMeasures(j, first, last - 1)
         + (IF j \in DOMAIN work[last] THEN work[last][j] ELSE 0)

\* the distribution of window i: the measures at positions i .. i + windowSize - 1
WindowDistribution(i) ==
    [j \in 0..11 |-> CountInMeasures(j, i + 1, i + windowSize)]

TrajectoryLength ==
    IF Len(work) - windowSize + 1 > 0 THEN Len(work) - windowSize + 1 ELSE 0

\* C6: windowKeyDetect returns max(0, M - w + 1) estimates, the i-th being
\* singleKeyDetect of the distribution of window i, absent pitch classes
\* counting 0; while it runs, the estimates of windows 0 .. i - 1 are in place
C6_WindowTrajectory ==
    /\ wpc = "returned" =>
          /\ DOMAIN key = 0..(TrajectoryLength - 1)
          /\ \A i \in DOMAIN key : key[i] = singleKeyDetect(WindowDistribution(i))
    /\ wpc = "loop" =>
          \A i \in 0..(wi - 1) : key[i] = singleKeyDetect(WindowDistribution(i))
    /\ wpc \in {"idle", "loop", "returned"}

\* a score of exactly windowSize measures has given a single estimate
C6_Witness ==
    /\ wpc = "returned"
    /\ Len(work) = windowSize
    /\ Len(work) > 1
    /\ DOMAIN key = {0}

\* C7: when the analysis of a window fails, the driver does not abort: its
\* trajectory keeps its full length, holds the marker "undetermined" at that
\* window and the estimate of every other window
C7_FailedWindowIsMarked ==
    (wpc \in {"returned", "raised"} /\ failed # {}) =>
        /\ wpc = "returned"
        /\ DOMAIN key = 0..(TrajectoryLength - 1)
        /\ \A i \in failed : key[i] = "undetermined"
        /\ \A i \in DOMAIN key \ failed : key[i] = singleKeyDetect(WindowDistribution(i))

(***************************************************************************)
(* Specification SpecWeights: callers of getWeights.  Every call builds    *)
(* its list anew from the literal of lines 48 and 50; held are the lists   *)
(* callers have received, which they may change; ret records the mode, the *)
(* list as it was when the last call returned it, and the number of        *)
(* changes callers had made by then.                                       *)
(***************************************************************************)
InitWeights ==
    /\ WeightsIdle
    /\ pcDistribution = Silent
    /\ DetectIdle
    /\ WindowIdle
    /\ KeyIdle

GetWeightsCall(major) ==
    /\ Len(held) < MaxCalls
    /\ LET list == getWeights(major)
       IN  /\ held' = Append(held, [isMajor |-> major, list |-> list])
           /\ ret' = [isMajor |-> major, list |-> list, changesBefore |-> mutations]
    /\ UNCHANGED mutations
    /\ UNCHANGED <<detectVars, windowVars, keyVars>>

\* a caller assigns 0 to position j of the k-th list handed out
CallerSetItem(k, j) ==
    /\ mutations < MaxMutations
    /\ k \in DOMAIN held
    /\ held[k].list[j] # 0
    /\ held' = [held EXCEPT ![k].list[j] = 0]
    /\ mutations' = mutations + 1
    /\ UNCHANGED ret
    /\ UNCHANGED <<detectVars, windowVars, keyVars>>

NextWeights ==
    \/ \E major \in BOOLEAN : GetWeightsCall(major)
    \/ \E k \in 1..MaxCalls : \E j \in 0..11 : CallerSetItem(k, j)

SpecWeights == InitWeights /\ [][NextWeights]_vars

\* C10: every call of getWeights returns exactly the major or the minor
\* profile, after any earlier calls and any changes callers made to lists
\* returned earlier
C10_WeightsAreTheLiterals ==
    held # <<>> =>
        ret.list =
            IF ret.isMajor
            THEN ListOf(<<635, 233, 348, 233, 438, 409, 252, 519, 239, 366, 229, 288>>)
            ELSE ListOf(<<633, 268, 352, 538, 260, 353, 254, 475, 398, 269, 334, 317>>)

\* a call answered after a caller had changed the list an earlier call of the
\* same mode returned
C10_Witness ==
    /\ Len(held) = 2
    /\ held[1].isMajor = held[2].isMajor
    /\ held[1].list[0] = 0
    /\ ret.changesBefore > 0
    /\ ret.isMajor = held[1].isMajor
    /\ ret.list[0] # 0

(***************************************************************************)
(* key.py.  A pitch is its step, the name of its accidental (None when it  *)
(* has no accidental object) and its octave.  An optional number is a      *)
(* sequence: <<>> is Python's None and <<n>> the number n, so the octave   *)
(* None is <<>>.  An object that may be shared carries alias: <<>> for an  *)
(* object nobody else refers to, <<k>> for the object stored under k in    *)
(* the container it came from.                                             *)
(***************************************************************************)
\* largest number of sharps or flats given to sharpsToPitch and KeySignature
MaxSharps == 9
\* most calls of sharpsToPitch in one run
MaxSharpsCalls == 3
\* most assignments and transpositions applied to one KeySignature
MaxKsChanges == 2
\* most accidentals callers keep from accidentalByStep
MaxHeld == 2

KeyException == "KeyException"

\* the steps in the order of the scale, and the pitch class of each
Steps == <<"C", "D", "E", "F", "G", "A", "B">>

StepPitchClass == <<0, 2, 4, 5, 7, 9, 11>>

StepNumber(step) == CHOOSE n \in 1..7 : Steps[n] = step

MicrotoneNames == {"half-sharp", "half-flat", "one-and-a-half-sharp", "one-and-a-half-flat"}

\* Accidental.isTwelveTone()
isTwelveTone(name) == name \notin MicrotoneNames

\* Accidental.alter of a twelve-tone accidental, in semitones
alter(name) ==
    CASE name = "natural" -> 0
      [] name = "sharp" -> 1
      [] name = "double-sharp" -> 2
      [] name = "triple-sharp" -> 3
      [] name = "quadruple-sharp" -> 4
      [] name = "flat" -> -1
      [] name = "double-flat" -> -2
      [] name = "triple-flat" -> -3
      [] name = "quadruple-flat" -> -4

\* the accidental a pitch is given for an alteration of n semitones, n # 0
accidentalName(n) ==
    CASE n = 1 -> "sharp"
      [] n = 2 -> "double-sharp"
      [] n = 3 -> "triple-sharp"
      [] n = 4 -> "quadruple-sharp"
      [] n = -1 -> "flat"
      [] n = -2 -> "double-flat"
      [] n = -3 -> "triple-flat"
      [] n = -4 -> "quadruple-flat"

\* pitch.Pitch(name): the pitch of that step and accidental, its octave None
PitchNamed(step, accidental) ==
    [step |-> step, accidental |-> accidental, octave |-> <<>>]

\* interval.Interval(name): the steps of the scale and the semitones it spans
Interval(name) ==
    CASE name = "P1" -> [generic |-> 0, semitones |-> 0]
      [] name = "m3" -> [generic |-> 2, semitones |-> 3]
      [] name = "P4" -> [generic |-> 3, semitones |-> 5]
      [] name = "P5" -> [generic |-> 4, semitones |-> 7]
      [] name = "P-5" -> [generic |-> -4, semitones |-> -7]

IntervalNames == {"P1", "m3", "P4", "P5", "P-5"}

\* the pitches: a step, an accidental or None, an octave or None
Pitches ==
    [step : {Steps[n] : n \in 1..7},
     accidental : {None, "natural"} \cup {accidentalName(n) : n \in {-4, -3, -2, -1, 1, 2, 3, 4}}
                      \cup MicrotoneNames,
     octave : {<<>>} \cup {<<n>> : n \in -40..40}]

\* Interval.transposePitch, Pitch.transpose: the step moves by the generic
\* size, the accidental is what is left of the semitones; a pitch of octave
\* None sounds in octave 4
transposePitch[intervalObj \in {Interval(name) : name \in IntervalNames}, p \in Pitches] ==
    LET moved == (StepNumber(p.step) - 1) + intervalObj.generic
        newStep == (moved % 7) + 1
        octaves == moved \div 7
        sounding == StepPitchClass[StepNumber(p.step)]
                        + (IF p.accidental = None THEN 0 ELSE alter(p.accidental))
        halfStepsToFix ==
            sounding + intervalObj.semitones - (StepPitchClass[newStep] + 12 * octaves)
    IN  [step |-> Steps[newStep],
         accidental |-> IF halfStepsToFix = 0 THEN None ELSE accidentalName(halfStepsToFix),
         octave |-> <<(IF p.octave = <<>> THEN 4 ELSE p.octave[1]) + octaves>>]

\* str.lower() on the strings the model uses
lower(str) ==
    CASE str = "A" -> "a" [] str = "B" -> "b" [] str = "C" -> "c" [] str = "D" -> "d"
      [] str = "E" -> "e" [] str = "F" -> "f" [] str = "G" -> "g"
      [] str = "Minor" -> "minor" [] str = "Major" -> "major" [] str = "M" -> "m"
      [] OTHER -> str

\* faulty variant: the object itself handed on
deepcopyShared(obj) == obj

\* copy.deepcopy(obj): an equal object that nothing else refers to
deepcopy(obj) == [obj EXCEPT !.alias = <<>>]

(***************************************************************************)
(* fifthsOrder, modeSharpsAlter, pitchToSharps                             *)
(***************************************************************************)
\* faulty variant: the order of fifths begun on C
fifthsOrderFromC == ListOf(<<"C", "G", "D", "A", "E", "B", "F">>)

fifthsOrder == ListOf(<<"F", "C", "G", "D", "A", "E", "B">>)

modeSharpsAlter ==
    [major |-> 0, minor |-> -3, dorian |-> -2, phrygian |-> -4,
     lydian |-> 1, mixolydian |-> -1, locrian |-> -5]

\* faulty variant: the test of the accidental left out, a microtone counted as
\* the semitones below it
pitchToSharpsUnguarded(value, mode) ==
    LET acc == value.pitch.accidental
        vaa == CASE acc = None -> 0
                 [] acc \in {"half-sharp", "half-flat"} -> 0
                 [] acc = "one-and-a-half-sharp" -> 1
                 [] acc = "one-and-a-half-flat" -> -1
                 [] OTHER -> alter(acc)
    IN  [raised |-> None, message |-> None,
         sharps |-> <<Index(fifthsOrder, value.pitch.step) - 1 + 7 * vaa
                        + (IF mode # None /\ mode \in DOMAIN modeSharpsAlter
                           THEN modeSharpsAlter[mode] ELSE 0)>>]

\* value is an object of class Pitch or Note (value.pitch is its pitch, the
\* object itself for a Pitch) or of another class.  The outcome is the
\* exception raised, or None, and the number returned
pitchToSharps(value, mode) ==
    IF value.classes \notin {"Pitch", "Note"}
    THEN [raised |-> KeyException, message |-> "Cannot get a sharp number from value",
          sharps |-> <<>>]
    ELSE LET p == value.pitch
             sharps == Index(fifthsOrder, p.step) - 1
         IN  IF p.accidental # None /\ isTwelveTone(p.accidental) = FALSE
             THEN [raised |-> KeyException,
                   message |-> "Cannot determine sharps for quarter-tone keys! silly!",
                   sharps |-> <<>>]
             ELSE LET vaa == IF p.accidental # None THEN alter(p.accidental) ELSE 0
                      altered == sharps + 7 * vaa
                  IN  [raised |-> None, message |-> None,
                       sharps |-> <<IF mode # None /\ mode \in DOMAIN modeSharpsAlter
                                    THEN altered + modeSharpsAlter[mode]
                                    ELSE altered>>]

(***************************************************************************)
(* sharpsToPitch and its cache.  The dictionary is a function from the     *)
(* counts stored so far to the pitches stored for them; a call gives the   *)
(* object returned and the dictionary it leaves.                           *)
(***************************************************************************)
\* faulty variant: upward fifths for every count
intervalStrUp(sharpCount) == "P5"

\* lines 107-112, for a count other than 0
intervalStr(sharpCount) == IF sharpCount > 0 THEN "P5" ELSE "P-5"

\* lines 116-117: pitchInit after n turns of the loop
transposeTimes(intervalObj, pitchInit, n) ==
    LET after[k \in 0..n] ==
            IF k = 0 THEN pitchInit ELSE transposePitch[intervalObj, after[k - 1]]
    IN  after[n]

\* faulty variant: the dictionary begun anew with every entry written
cacheStoreAlone(cache, sharpCount, pitchInit) == [k \in {sharpCount} |-> pitchInit]

\* line 121: _sharpsToPitchCache[sharpCount] = pitchInit
cacheStore(cache, sharpCount, pitchInit) ==
    [k \in DOMAIN cache \cup {sharpCount} |-> IF k = sharpCount THEN pitchInit ELSE cache[k]]

abs(n) == IF n < 0 THEN 0 - n ELSE n

sharpsToPitch(cache, sharpCountGiven) ==
    LET sharpCount == IF sharpCountGiven = <<>> THEN 0 ELSE sharpCountGiven[1]
    IN  IF sharpCount \in DOMAIN cache
        THEN [obj |-> deepcopy([pitch |-> cache[sharpCount], alias |-> <<sharpCount>>]),
              cache |-> cache]
        ELSE IF sharpCount = 0
        THEN [obj |-> [pitch |-> PitchNamed("C", None), alias |-> <<>>], cache |-> cache]
        ELSE LET intervalObj == Interval(intervalStr(sharpCount))
                 moved == transposeTimes(intervalObj, PitchNamed("C", None), abs(sharpCount))
                 pitchInit == [moved EXCEPT !.octave = <<>>]
             IN  [obj |-> [pitch |-> pitchInit, alias |-> <<sharpCount>>],
                  cache |-> cacheStore(cache, sharpCount, pitchInit)]

(***************************************************************************)
(* KeySignature: construction and pitchAndMode                             *)
(***************************************************************************)
\* KeySignature.__init__ for an integer number of sharps
KeySignature(sharps, mode) ==
    [sharps |-> sharps, mode |-> mode, alteredPitchesCached |-> <<>>]

\* the pair returned, and the dictionary sharpsToPitch leaves
getPitchAndMode(self, cache) ==
    LET found == IF self.mode # None /\ lower(self.mode) = "minor"
                 THEN sharpsToPitch(cache, <<self.sharps + 3>>)
                 ELSE sharpsToPitch(cache, <<self.sharps>>)
    IN  [pitchObj |-> found.obj, mode |-> self.mode, cache |-> found.cache]

(***************************************************************************)
(* Specification SpecConvert: a value and a mode are turned into a number  *)
(* of sharps by pitchToSharps, and the number is turned back into a tonic  *)
(* by KeySignature(sharps, mode).pitchAndMode.                             *)
(***************************************************************************)
CvAccidentals ==
    {None, "natural", "sharp", "double-sharp", "flat", "double-flat"} \cup MicrotoneNames

CvPitches == {PitchNamed(Steps[n], a) : n \in 1..7, a \in CvAccidentals}

CvValues ==
    {[classes |-> c, pitch |-> p] : c \in {"Pitch", "Note"}, p \in CvPitches}
        \cup {[classes |-> "Stream", pitch |-> PitchNamed("C", None)]}

SupportedModes == {"major", "minor", "dorian", "phrygian", "lydian", "mixolydian", "locrian"}

CvModes == {None, "Minor", "ionian"} \cup SupportedModes

InitConvert ==
    /\ cvValue \in CvValues
    /\ cvMode \in CvModes
    /\ cvSharps = None
    /\ cvTonic = None
    /\ cpc = "idle"
    /\ SharpsIdle
    /\ KeySigIdle
    /\ pcDistribution = Silent
    /\ DetectIdle
    /\ WindowIdle
    /\ WeightsIdle

PitchToSharpsCall ==
    /\ cpc = "idle"
    /\ cpc' = "pitchToSharps"
    /\ cvSharps' = pitchToSharps(cvValue, cvMode)
    /\ UNCHANGED <<cvValue, cvMode, cvTonic>>
    /\ UNCHANGED <<sharpsVars, keySigVars>>
    /\ UNCHANGED <<detectVars, windowVars, weightVars>>

\* KeySignature(sharps, mode).pitchAndMode[0] for the number just returned
PitchAndModeCall ==
    /\ cpc = "pitchToSharps"
    /\ cvSharps.raised = None
    /\ cpc' = "pitchAndMode"
    /\ LET self == KeySignature(cvSharps.sharps[1], cvMode)
           pair == getPitchAndMode(self, sharpsToPitchCache)
       IN  /\ cvTonic' = pair.pitchObj.pitch
           /\ sharpsToPitchCache' = pair.cache
    /\ UNCHANGED <<cvValue, cvMode, cvSharps>>
    /\ UNCHANGED <<stpRet, stpCalls, keySigVars>>
    /\ UNCHANGED <<detectVars, windowVars, weightVars>>

NextConvert ==
    \/ PitchToSharpsCall
    \/ PitchAndModeCall

SpecConvert == InitConvert /\ [][NextConvert]_vars

(***************************************************************************)
(* Claims about the conversions, checked under SpecConvert.                *)
(***************************************************************************)
\* the index of a letter in [F, C, G, D, A, E, B]
LetterIndex(letter) ==
    CASE letter = "F" -> 0 [] letter = "C" -> 1 [] letter = "G" -> 2 [] letter = "D" -> 3
      [] letter = "A" -> 4 [] letter = "E" -> 5 [] letter = "B" -> 6

\* the semitones by which an accidental alters its letter
Semitones(accidental) ==
    CASE accidental \in {None, "natural"} -> 0
      [] accidental = "sharp" -> 1
      [] accidental = "double-sharp" -> 2
      [] accidental = "triple-sharp" -> 3
      [] accidental = "flat" -> -1
      [] accidental = "double-flat" -> -2
      [] accidental = "triple-flat" -> -3

ModeTerm(mode) ==
    CASE mode = "major" -> 0
      [] mode = "minor" -> -3
      [] mode = "dorian" -> -2
      [] mode = "phrygian" -> -4
      [] mode = "lydian" -> 1
      [] mode = "mixolydian" -> -1
      [] mode = "locrian" -> -5
      [] OTHER -> 0

IsPitchValue == cvValue.classes \in {"Pitch", "Note"}

IsMicrotonal == cvValue.pitch.accidental \in MicrotoneNames

\* C11: for a pitch of letter L whose accidental, if any, is twelve-tone and
\* alters it by a semitones, pitchToSharps returns
\* (index of L in [F,C,G,D,A,E,B]) - 1 + 7 * a + modeSharpsAlter[mode], the
\* last term 0 when the mode is omitted or is none of the seven modes
C11_SharpsFormula ==
    (cpc # "idle" /\ IsPitchValue /\ ~IsMicrotonal) =>
        /\ cvSharps.raised = None
        /\ cvSharps.sharps =
              <<LetterIndex(cvValue.pitch.step) - 1
                  + 7 * Semitones(cvValue.pitch.accidental) + ModeTerm(cvMode)>>

\* C sharp in minor has 4 sharps, and C sharp in a mode that is not in the
\* table has the 7 of C sharp major
C11_Witness ==
    /\ cpc = "pitchToSharps"
    /\ cvValue.pitch = PitchNamed("C", "sharp")
    /\ \/ cvMode = "minor" /\ cvSharps.sharps = <<4>>
       \/ cvMode = "Minor" /\ cvSharps.sharps = <<7>>

\* C12: for a pitch that is not microtonal and each of the seven modes, the
\* number pitchToSharps gives, turned back into a tonic for the same mode by
\* KeySignature.pitchAndMode, is a pitch of the same letter and the same
\* accidental
C12_RoundTrip ==
    (cpc = "pitchAndMode" /\ IsPitchValue /\ cvMode \in SupportedModes) =>
        /\ cvTonic.step = cvValue.pitch.step
        /\ Semitones(cvTonic.accidental) = Semitones(cvValue.pitch.accidental)

\* C13: pitchToSharps raises KeyException and returns no number whenever the
\* pitch has an accidental that is not twelve-tone, whatever the mode; it
\* raises for no pitch whose accidental is absent or twelve-tone
C13_MicrotonesRaise ==
    (cpc # "idle" /\ IsPitchValue) =>
        IF IsMicrotonal
        THEN cvSharps.raised = KeyException /\ cvSharps.sharps = <<>>
        ELSE cvSharps.raised = None /\ Len(cvSharps.sharps) = 1

\* G half-sharp in dorian is refused
C13_Witness ==
    /\ cpc = "pitchToSharps"
    /\ cvValue.pitch = PitchNamed("G", "half-sharp")
    /\ cvMode = "dorian"
    /\ cvSharps.raised = KeyException
    /\ cvSharps.sharps = <<>>

(***************************************************************************)
(* Specification SpecSharps: callers of sharpsToPitch, with any number of  *)
(* sharps or flats up to MaxSharps or with None, in any order.  stpRet     *)
(* records the argument, the object returned and whether the dictionary    *)
(* held the count when the call came.                                      *)
(***************************************************************************)
SharpCounts == (0 - MaxSharps)..MaxSharps

SharpsGiven == {<<>>} \cup {<<n>> : n \in SharpCounts}

InitSharps ==
    /\ SharpsIdle
    /\ ConvertIdle
    /\ KeySigIdle
    /\ pcDistribution = Silent
    /\ DetectIdle
    /\ WindowIdle
    /\ WeightsIdle

SharpsToPitchCall(given) ==
    /\ stpCalls < MaxSharpsCalls
    /\ LET found == sharpsToPitch(sharpsToPitchCache, given)
       IN  /\ sharpsToPitchCache' = found.cache
           /\ stpRet' = [given |-> given, obj |-> found.obj,
                         cached |-> given # <<>> /\ given[1] \in DOMAIN sharpsToPitchCache]
    /\ stpCalls' = stpCalls + 1
    /\ UNCHANGED <<convertVars, keySigVars>>
    /\ UNCHANGED <<detectVars, windowVars, weightVars>>

NextSharps == \E given \in SharpsGiven : SharpsToPitchCall(given)

SpecSharps == InitSharps /\ [][NextSharps]_vars

(***************************************************************************)
(* Claims about sharpsToPitch, checked under SpecSharps.                   *)
(***************************************************************************)
LineOfFifths == <<"F", "C", "G", "D", "A", "E", "B">>

\* the pitch n fifths above C (below, for n < 0) on the line of fifths
\* ... F- C- G- D- A- E- B- F C G D A E B F# C# ..., without octave
FifthsFromC(n) ==
    LET place == n + 1
        raised == place \div 7
    IN  [step |-> LineOfFifths[(place % 7) + 1],
         accidental |-> CASE raised = 0 -> None
                          [] raised = 1 -> "sharp"
                          [] raised = 2 -> "double-sharp"
                          [] raised = -1 -> "flat"
                          [] raised = -2 -> "double-flat",
         octave |-> <<>>]

\* C14: every call of sharpsToPitch(s), the first for s or one answered from
\* the cache, whatever was asked in between, returns the octave-less pitch
\* |s| perfect fifths above (s > 0) or below (s < 0) C, and C for 0 and None
C14_MajorTonic ==
    stpCalls > 0 =>
        stpRet.obj.pitch =
            FifthsFromC(IF stpRet.given = <<>> THEN 0 ELSE stpRet.given[1])

\* six flats asked for again after another count: G flat from the cache
C14_Witness ==
    /\ stpCalls = 3
    /\ stpRet.given = <<-6>>
    /\ stpRet.cached
    /\ DOMAIN sharpsToPitchCache = {-6, 2}
    /\ stpRet.obj.pitch = PitchNamed("G", "flat")

\* C15: across any sequence of sharpsToPitch calls the cache only grows: an
\* entry is written at most once, never removed and never replaced by a
\* different value
C15_CacheOnlyGrows ==
    [][\A n \in DOMAIN sharpsToPitchCache :
          /\ n \in DOMAIN sharpsToPitchCache'
          /\ sharpsToPitchCache'[n] = sharpsToPitchCache[n]]_vars

\* two counts stored, and the last call answered from what was stored
C15_Witness ==
    /\ Cardinality(DOMAIN sharpsToPitchCache) = 2
    /\ stpCalls = 3
    /\ stpRet.cached
    /\ sharpsToPitchCache[stpRet.given[1]] = stpRet.obj.pitch

(***************************************************************************)
(* KeySignature: alteredPitches, the setters, transpose, accidentalByStep. *)
(* A method gives what it returns and the object as it leaves it.          *)
(***************************************************************************)
\* faulty variant: the cache kept
attributesChangedNot(self) == self

attributesChanged(self) == [self EXCEPT !.alteredPitchesCached = <<>>]

\* faulty variant: pKeep itself appended in every turn, so that the list
\* holds the same pitch n times, as the last turn left it
collectShared(intervalObj, pKeep, n) ==
    LET last == transposeTimes(intervalObj, pKeep, n)
    IN  [k \in 1..n |-> [last EXCEPT !.octave = <<>>]]

\* lines 462-466 and 470-474: the list after n turns of the loop, from
\* pKeep; the k-th entry is a copy of pKeep as the k-th turn left it
collect(intervalObj, pKeep, n) ==
    [k \in 1..n |-> [transposeTimes(intervalObj, pKeep, k) EXCEPT !.octave = <<>>]]

getAlteredPitches(self) ==
    IF self.alteredPitchesCached # <<>>
    THEN [post |-> self.alteredPitchesCached, self |-> self]
    ELSE LET post ==
                 IF self.sharps > 0
                 THEN collect(Interval("P5"), PitchNamed("B", None), self.sharps)
                 ELSE IF self.sharps < 0
                 THEN collect(Interval("P4"), PitchNamed("F", None), abs(self.sharps))
                 ELSE <<>>
         IN  [post |-> post, self |-> [self EXCEPT !.alteredPitchesCached = post]]

setSharps(self, value) ==
    IF value # self.sharps
    THEN attributesChanged([self EXCEPT !.sharps = value])
    ELSE self

setMode(self, value) ==
    IF value # self.mode
    THEN attributesChanged([self EXCEPT !.mode = value])
    ELSE self

\* faulty variant: the receiver itself worked on, whatever inPlace says
transposedObjectSelf(inPlace) == "self"

\* lines 637-640: post is a deep copy of the receiver, or the receiver
transposedObject(inPlace) == IF ~inPlace THEN "copy" ELSE "self"

\* faulty variant: the transposed object returned whatever inPlace says
transposeReturnedAlways(inPlace, post) == <<post>>

\* lines 646-649: post is returned, or None (<<>>)
transposeReturned(inPlace, post) == IF ~inPlace THEN <<post>> ELSE <<>>

\* value names an interval.  The outcome is the receiver as the call leaves
\* it, the object returned (<<>>: None) and the dictionary of sharpsToPitch
transpose(self, cache, value, inPlace) ==
    LET intervalObj == Interval(value)
        pair == getPitchAndMode(self, cache)
        p2 == transposePitch[intervalObj, pair.pitchObj.pitch]
        found == pitchToSharps([classes |-> "Pitch", pitch |-> p2], pair.mode)
        post == attributesChanged(setSharps(self, found.sharps[1]))
    IN  [self |-> IF transposedObject(inPlace) = "self" THEN post ELSE self,
         returned |-> transposeReturned(inPlace, post),
         cache |-> pair.cache]

\* faulty variant: the list scanned from its first entry
reversedNot(l) == l

reversed(l) == [k \in 1..Len(l) |-> l[Len(l) + 1 - k]]

\* the accidental of the k-th altered pitch is the object with alias <<k>>
accidentalByStep(self, step) ==
    LET read == getAlteredPitches(self)
        alterations ==
            [k \in 1..Len(read.post) |->
                [step |-> read.post[k].step,
                 accidental |-> [name |-> read.post[k].accidental, alias |-> <<k>>]]]
        scanned == reversed(alterations)
        matching == {k \in 1..Len(scanned) : lower(scanned[k].step) = lower(step)}
    IN  IF matching = {}
        THEN [returned |-> <<>>, self |-> read.self]
        ELSE LET thisAlteration == scanned[CHOOSE k \in matching : \A j \in matching : k <= j]
             IN  [returned |-> <<deepcopy(thisAlteration.accidental)>>, self |-> read.self]

(***************************************************************************)
(* Specification SpecKeySig: one KeySignature whose alteredPitches is read *)
(* between assignments to sharps and mode and transpositions.              *)
(***************************************************************************)
KsModes == {None, "minor", "dorian"}

KsIntervals == {"P1", "P5", "m3"}

\* the numbers of sharps assigned to a signature
KsSharps == {0 - MaxSharps, -3, 0, 2, MaxSharps}

InitKeySig ==
    /\ ks \in {KeySignature(n, m) : n \in SharpCounts, m \in KsModes}
    /\ kop = "idle"
    /\ karg = None
    /\ kret = None
    /\ kchanges = 0
    /\ kstale = <<>>
    /\ heldAcc = <<>>
    /\ ConvertIdle
    /\ SharpsIdle
    /\ pcDistribution = Silent
    /\ DetectIdle
    /\ WindowIdle
    /\ WeightsIdle

\* ks.alteredPitches
AlteredPitchesRead ==
    /\ LET read == getAlteredPitches(ks)
       IN  /\ ks' = read.self
           /\ kret' = read.post
    /\ kop' = "alteredPitches"
    /\ karg' = None
    /\ UNCHANGED <<kchanges, kstale, heldAcc>>
    /\ UNCHANGED <<convertVars, sharpsVars>>
    /\ UNCHANGED <<detectVars, windowVars, weightVars>>

\* ks.sharps = value
SharpsAssign(value) ==
    /\ kchanges < MaxKsChanges
    /\ ks' = setSharps(ks, value)
    /\ kop' = "sharps"
    /\ karg' = value
    /\ kret' = None
    /\ kchanges' = kchanges + 1
    /\ kstale' = ks.alteredPitchesCached
    /\ UNCHANGED heldAcc
    /\ UNCHANGED <<convertVars, sharpsVars>>
    /\ UNCHANGED <<detectVars, windowVars, weightVars>>

\* ks.mode = value
ModeAssign(value) ==
    /\ kchanges < MaxKsChanges
    /\ ks' = setMode(ks, value)
    /\ kop' = "mode"
    /\ karg' = value
    /\ kret' = None
    /\ kchanges' = kchanges + 1
    /\ kstale' = ks.alteredPitchesCached
    /\ UNCHANGED heldAcc
    /\ UNCHANGED <<convertVars, sharpsVars>>
    /\ UNCHANGED <<detectVars, windowVars, weightVars>>

\* ks.transpose(value, inPlace), for a result of at most MaxSharps sharps or flats
Transpose(value, inPlace) ==
    /\ kchanges < MaxKsChanges
    /\ LET done == transpose(ks, sharpsToPitchCache, value, inPlace)
           reached == IF inPlace THEN done.self.sharps ELSE done.returned[1].sharps
       IN  /\ reached \in SharpCounts
           /\ ks' = done.self
           /\ kret' = done.returned
           /\ sharpsToPitchCache' = done.cache
    /\ kop' = "transpose"
    /\ karg' = [value |-> value, inPlace |-> inPlace]
    /\ kchanges' = kchanges + 1
    /\ kstale' = ks.alteredPitchesCached
    /\ UNCHANGED heldAcc
    /\ UNCHANGED <<convertVars, stpRet, stpCalls>>
    /\ UNCHANGED <<detectVars, windowVars, weightVars>>

NextKeySig ==
    \/ AlteredPitchesRead
    \/ \E value \in KsSharps : SharpsAssign(value)
    \/ \E value \in KsModes : ModeAssign(value)
    \/ \E value \in KsIntervals : \E inPlace \in BOOLEAN : Transpose(value, inPlace)

SpecKeySig == InitKeySig /\ [][NextKeySig]_vars

(***************************************************************************)
(* Claims about the cache of alteredPitches and about transpose, checked   *)
(* under SpecKeySig.                                                       *)
(***************************************************************************)
\* the list a signature of that many sharps derives when nothing is cached
DerivedPitches(sharps) == getAlteredPitches(KeySignature(sharps, None)).post

\* C17: after any sequence of reads of alteredPitches, assignments to sharps
\* and mode and transpositions, in place or not, a read of alteredPitches
\* returns the list derived from the current sharps, never a list computed
\* for an earlier value; so does a read on the object a transposition returned
C17_NoStaleAlteredPitches ==
    /\ getAlteredPitches(ks).post = DerivedPitches(ks.sharps)
    /\ kop = "alteredPitches" => kret = DerivedPitches(ks.sharps)
    /\ (kop = "transpose" /\ ~karg.inPlace) =>
          getAlteredPitches(kret[1]).post = DerivedPitches(kret[1].sharps)

\* a read after a change that found a list cached for another number of sharps
C17_Witness ==
    /\ kop = "alteredPitches"
    /\ kstale # <<>>
    /\ kret # <<>>
    /\ kret # kstale

\* C20: transpose with inPlace=False returns a new KeySignature and leaves
\* the receiver's sharps, mode and alteredPitches as they were, for every
\* interval
C20_TransposeLeavesReceiver ==
    [][(kop' = "transpose" /\ ~karg'.inPlace) =>
          /\ ks'.sharps = ks.sharps
          /\ ks'.mode = ks.mode
          /\ getAlteredPitches(ks').post = getAlteredPitches(ks).post
          /\ Len(kret') = 1]_vars

\* a signature whose list had been read, transposed to another number of
\* sharps, still holding its own list
C20_Witness ==
    /\ kop = "transpose"
    /\ ~karg.inPlace
    /\ kret[1].sharps # ks.sharps
    /\ ks.alteredPitchesCached # <<>>
    /\ ks.alteredPitchesCached = DerivedPitches(ks.sharps)

\* C21: for every state of a KeySignature and every interval, transpose
\* with inPlace=True returns nothing and leaves the receiver with the sharps
\* and the mode of the object transpose with inPlace=False returns from the
\* same state; in both variants the mode is the mode before the call
C21_InPlaceAgreesWithCopy ==
    [][kop' = "transpose" =>
          LET copied == transpose(ks, sharpsToPitchCache, karg'.value, FALSE).returned
              here == transpose(ks, sharpsToPitchCache, karg'.value, TRUE)
          IN  /\ Len(copied) = 1
              /\ here.returned = <<>>
              /\ here.self.sharps = copied[1].sharps
              /\ here.self.mode = ks.mode
              /\ copied[1].mode = ks.mode
              /\ IF karg'.inPlace
                 THEN /\ kret' = <<>>
                      /\ ks'.sharps = copied[1].sharps
                      /\ ks'.mode = ks.mode
                 ELSE /\ kret' = copied
                      /\ kret'[1].sharps = here.self.sharps
                      /\ kret'[1].mode = ks.mode]_vars

\* a minor signature whose list had been read, transposed in place up a minor
\* third to no sharps
C21_Witness ==
    /\ kop = "transpose"
    /\ karg.inPlace
    /\ karg.value = "m3"
    /\ kret = <<>>
    /\ kstale # <<>>
    /\ ks.mode = "minor"
    /\ ks.sharps = 0

(***************************************************************************)
(* KeySignature.__init__ with any argument.  An argument is a value with   *)
(* its Python type: None, an int, a float (num counts halves, so that 3 is *)
(* the float 1.5) or a str.                                                *)
(***************************************************************************)
KeySignatureException == "KeySignatureException"

ValueError == "ValueError"

NoneValue == [type |-> "NoneType", num |-> 0, text |-> ""]

IntValue(n) == [type |-> "int", num |-> n, text |-> ""]

FloatValue(halves) == [type |-> "float", num |-> halves, text |-> ""]

StrValue(text) == [type |-> "str", num |-> 0, text |-> text]

\* the strings Python reads as a decimal integer, with the integer
DecimalStrings == [t \in {"3", "-2", " 4 "} |-> CASE t = "3" -> 3 [] t = "-2" -> -2 [] t = " 4 " -> 4]

\* int(value): a float is cut towards zero, a str is parsed or refused.  The
\* outcome is the exception raised, or None, and the int
int(value) ==
    CASE value.type = "int" -> [raised |-> None, n |-> value.num]
      [] value.type = "float" ->
            [raised |-> None,
             n |-> IF value.num >= 0 THEN value.num \div 2 ELSE 0 - ((0 - value.num) \div 2)]
      [] value.type = "str" ->
            IF value.text \in DOMAIN DecimalStrings
            THEN [raised |-> None, n |-> DecimalStrings[value.text]]
            ELSE [raised |-> ValueError, n |-> 0]

\* value != n for an int n: numbers compare by what they are worth, a str
\* equals no int
notEqual(value, n) ==
    CASE value.type = "int" -> value.num # n
      [] value.type = "float" -> value.num # 2 * n
      [] value.type = "str" -> TRUE

\* faulty variant: the argument stored without the test of lines 363-370
KeySignatureInitUnchecked(sharps, mode) ==
    [raised |-> None, self |-> <<KeySignature(sharps, mode)>>]

\* The outcome is the exception raised, or None, and the object constructed
KeySignatureInit(sharps, mode) ==
    IF sharps.type = "NoneType"
    THEN [raised |-> None, self |-> <<KeySignature(sharps, mode)>>]
    ELSE LET converted == int(sharps)
         IN  IF converted.raised = ValueError
             THEN [raised |-> KeySignatureException, self |-> <<>>]
             ELSE IF notEqual(sharps, converted.n)
             THEN [raised |-> KeySignatureException, self |-> <<>>]
             ELSE [raised |-> None, self |-> <<KeySignature(sharps, mode)>>]

(***************************************************************************)
(* Specification SpecConstruct: KeySignature(sharps, mode) is called with  *)
(* nothing, an int, a float or a str for sharps.  ks is the object when    *)
(* the call returns and None when it raises; kret is what it raised.       *)
(***************************************************************************)
SharpsStrings == {"c#", "C", "1.5", "", "three"} \cup DOMAIN DecimalStrings

SharpsValues ==
    {NoneValue} \cup {IntValue(n) : n \in SharpCounts}
        \cup {FloatValue(h) : h \in (0 - 2 * MaxSharps)..(2 * MaxSharps)}
        \cup {StrValue(t) : t \in SharpsStrings}

InitConstruct ==
    /\ KeyIdle
    /\ pcDistribution = Silent
    /\ DetectIdle
    /\ WindowIdle
    /\ WeightsIdle

Construct(sharps, mode) ==
    /\ kop = "idle"
    /\ LET made == KeySignatureInit(sharps, mode)
       IN  /\ ks' = IF made.raised = None THEN made.self[1] ELSE None
           /\ kret' = made.raised
    /\ kop' = "init"
    /\ karg' = [sharps |-> sharps, mode |-> mode]
    /\ UNCHANGED <<kchanges, kstale, heldAcc>>
    /\ UNCHANGED <<convertVars, sharpsVars>>
    /\ UNCHANGED <<detectVars, windowVars, weightVars>>

NextConstruct == \E sharps \in SharpsValues : \E mode \in CvModes : Construct(sharps, mode)

SpecConstruct == InitConstruct /\ [][NextConstruct]_vars

\* an argument that is worth an integer, or is absent
IsIntegral(value) ==
    \/ value.type \in {"NoneType", "int"}
    \/ value.type = "float" /\ value.num % 2 = 0

\* C22: KeySignature(sharps) raises KeySignatureException whenever sharps is
\* a number that is not integral or is a string; for every integer, and for
\* no argument, it returns an object whose sharps is the value given, None
\* when it was omitted
C22_ConstructorChecksSharps ==
    kop = "init" =>
        IF IsIntegral(karg.sharps)
        THEN /\ kret = None
             /\ ks.sharps = karg.sharps
             /\ karg.sharps.type = "NoneType" => ks.sharps = NoneValue
        ELSE /\ kret = KeySignatureException
             /\ ks = None

\* KeySignature('c#') is refused
C22_Witness ==
    /\ kop = "init"
    /\ karg.sharps = StrValue("c#")
    /\ kret = KeySignatureException
    /\ ks = None

(***************************************************************************)
(* Specification SpecLookup: a new KeySignature(n), for every n up to      *)
(* MaxSharps sharps or flats, whose alteredPitches is read and whose       *)
(* accidentalByStep is asked for every letter in either case.              *)
(* Specification SpecAccidentals: callers moreover keep accidentals they   *)
(* were returned and change them.  A change shows in every object that     *)
(* shares the alias of the one changed, and in the altered pitch the alias *)
(* names.                                                                  *)
(***************************************************************************)
StepsAsked == {"A", "B", "C", "D", "E", "F", "G", "a", "b", "c", "d", "e", "f", "g"}

\* the letters callers ask for when they keep what they get
StepsKept == {"B", "F", "c"}

KeySigNew(counts) ==
    /\ ks \in {KeySignature(n, None) : n \in counts}
    /\ kop = "idle"
    /\ karg = None
    /\ kret = None
    /\ kchanges = 0
    /\ kstale = <<>>
    /\ heldAcc = <<>>
    /\ ConvertIdle
    /\ SharpsIdle
    /\ pcDistribution = Silent
    /\ DetectIdle
    /\ WindowIdle
    /\ WeightsIdle

InitLookup == KeySigNew(SharpCounts)

InitAccidentals == KeySigNew(KsSharps)

\* ks.accidentalByStep(step)
AccidentalByStep(step) ==
    /\ LET found == accidentalByStep(ks, step)
       IN  /\ ks' = found.self
           /\ kret' = found.returned
    /\ kop' = "accidentalByStep"
    /\ karg' = step
    /\ UNCHANGED <<kchanges, kstale, heldAcc>>
    /\ UNCHANGED <<convertVars, sharpsVars>>
    /\ UNCHANGED <<detectVars, windowVars, weightVars>>

\* the caller keeps the accidental it has just been returned
CallerKeeps ==
    /\ kop = "accidentalByStep"
    /\ kret # <<>>
    /\ Len(heldAcc) < MaxHeld
    /\ heldAcc' = Append(heldAcc,
                        [step |-> lower(karg), obj |-> kret[1],
                         got |-> kret[1].name, changed |-> FALSE])
    /\ kop' = "kept"
    /\ UNCHANGED <<ks, karg, kret, kchanges, kstale>>
    /\ UNCHANGED <<convertVars, sharpsVars>>
    /\ UNCHANGED <<detectVars, windowVars, weightVars>>

\* the caller sets the k-th accidental it keeps to natural
CallerChanges(k) ==
    /\ k \in DOMAIN heldAcc
    /\ ~heldAcc[k].changed
    /\ LET alias == heldAcc[k].obj.alias
       IN  /\ heldAcc' =
                 [j \in DOMAIN heldAcc |->
                     IF j = k
                     THEN [heldAcc[j] EXCEPT !.obj.name = "natural", !.changed = TRUE]
                     ELSE IF alias # <<>> /\ heldAcc[j].obj.alias = alias
                     THEN [heldAcc[j] EXCEPT !.obj.name = "natural"]
                     ELSE heldAcc[j]]
           /\ ks' = IF alias # <<>> /\ alias[1] \in DOMAIN ks.alteredPitchesCached
                    THEN [ks EXCEPT !.alteredPitchesCached[alias[1]].accidental = "natural"]
                    ELSE ks
    /\ kop' = "changed"
    /\ karg' = None
    /\ kret' = None
    /\ UNCHANGED <<kchanges, kstale>>
    /\ UNCHANGED <<convertVars, sharpsVars>>
    /\ UNCHANGED <<detectVars, windowVars, weightVars>>

NextLookup ==
    \/ AlteredPitchesRead
    \/ \E step \in StepsAsked : AccidentalByStep(step)

SpecLookup == InitLookup /\ [][NextLookup]_vars

NextAccidentals ==
    \/ AlteredPitchesRead
    \/ \E step \in StepsKept : AccidentalByStep(step)
    \/ CallerKeeps
    \/ \E k \in 1..MaxHeld : CallerChanges(k)

SpecAccidentals == InitAccidentals /\ [][NextAccidentals]_vars

(***************************************************************************)
(* Claims about alteredPitches and accidentalByStep: C16 and C18 checked   *)
(* under SpecLookup, C19 under SpecAccidentals.                            *)
(***************************************************************************)
SharpLetters == <<"F", "C", "G", "D", "A", "E", "B">>

FlatLetters == <<"B", "E", "A", "D", "G", "C", "F">>

\* ceil(k / 7) sharps, or flats
RoundsOf(k, single, double) == IF (k + 6) \div 7 = 1 THEN single ELSE double

\* the altered pitches the claim lists for s sharps (flats, for s < 0)
ListedPitches(s) ==
    [k \in 1..(IF s < 0 THEN 0 - s ELSE s) |->
        [step |-> IF s > 0 THEN SharpLetters[((k - 1) % 7) + 1]
                  ELSE FlatLetters[((k - 1) % 7) + 1],
         accidental |-> IF s > 0 THEN RoundsOf(k, "sharp", "double-sharp")
                        ELSE RoundsOf(k, "flat", "double-flat"),
         octave |-> <<>>]]

\* C16: KeySignature(s).alteredPitches has |s| entries; for s > 0 the k-th has
\* the k-th letter of the cycle F,C,G,D,A,E,B raised by ceil(k/7) sharps, for
\* s < 0 the k-th letter of the cycle B,E,A,D,G,C,F lowered by ceil(k/7)
\* flats; for s = 0 it is empty
C16_AlteredPitchesListed ==
    kop = "alteredPitches" =>
        /\ Len(kret) = (IF ks.sharps < 0 THEN 0 - ks.sharps ELSE ks.sharps)
        /\ kret = ListedPitches(ks.sharps)

\* nine sharps end with F## and C##
C16_Witness ==
    /\ kop = "alteredPitches"
    /\ ks.sharps = 9
    /\ Len(kret) = 9
    /\ kret[8] = PitchNamed("F", "double-sharp")
    /\ kret[9] = PitchNamed("C", "double-sharp")

UpperCase(letter) ==
    CASE letter \in {"a", "A"} -> "A" [] letter \in {"b", "B"} -> "B"
      [] letter \in {"c", "C"} -> "C" [] letter \in {"d", "D"} -> "D"
      [] letter \in {"e", "E"} -> "E" [] letter \in {"f", "F"} -> "F"
      [] letter \in {"g", "G"} -> "G"

\* the positions of alteredPitches at which the letter stands
EntriesFor(sharps, letter) ==
    {k \in DOMAIN DerivedPitches(sharps) : DerivedPitches(sharps)[k].step = UpperCase(letter)}

\* C18: accidentalByStep(letter), the letter in upper or lower case, returns
\* the accidental of the last entry of alteredPitches with that letter, and
\* none exactly when no entry has that letter
C18_AccidentalByStepLooksUp ==
    kop = "accidentalByStep" =>
        LET entries == EntriesFor(ks.sharps, karg)
        IN  IF entries = {} THEN kret = <<>>
            ELSE /\ Len(kret) = 1
                 /\ kret[1].name =
                       DerivedPitches(ks.sharps)[CHOOSE k \in entries :
                                                     \A j \in entries : j <= k].accidental

\* B at eight flats is a double flat, asked for in lower case
C18_Witness ==
    /\ kop = "accidentalByStep"
    /\ ks.sharps = -8
    /\ karg = "b"
    /\ kret = <<[name |-> "double-flat", alias |-> <<>>]>>

\* C19: each call of accidentalByStep returns an object independent of the
\* signature and of every earlier result: after a caller changed an
\* accidental it got, alteredPitches, later calls of accidentalByStep and the
\* accidentals other callers keep are as they would be without the change
C19_AccidentalsIndependent ==
    /\ getAlteredPitches(ks).post = DerivedPitches(ks.sharps)
    /\ kop = "accidentalByStep" =>
          /\ kret = accidentalByStep(KeySignature(ks.sharps, None), karg).returned
          /\ kret # <<>> => kret[1].alias = <<>>
    /\ \A k \in DOMAIN heldAcc : ~heldAcc[k].changed => heldAcc[k].obj.name = heldAcc[k].got

\* a call for the letter whose accidental a caller keeps and has changed,
\* while another kept accidental is untouched
C19_Witness ==
    /\ kop = "accidentalByStep"
    /\ kret # <<>>
    /\ Len(heldAcc) = 2
    /\ heldAcc[1].changed
    /\ ~heldAcc[2].changed
    /\ heldAcc[1].step = lower(karg)
    /\ heldAcc[1].obj.name # heldAcc[1].got
    /\ kret[1].name = heldAcc[1].got

(***************************************************************************)
(* KeySignature.getScale.  A scale is its class and the pitch it is built  *)
(* on.                                                                     *)
(***************************************************************************)
MajorScale(pitchObj) == [type |-> "MajorScale", tonic |-> pitchObj.pitch]

MinorScale(pitchObj) == [type |-> "MinorScale", tonic |-> pitchObj.pitch]

\* faulty variant: the mode compared after lower-casing, as _getPitchAndMode does
getScaleLowered(self, cache) ==
    LET pair == getPitchAndMode(self, cache)
    IN  IF pair.mode = None \/ lower(pair.mode) = "major"
        THEN [raised |-> None, returned |-> <<MajorScale(pair.pitchObj)>>, cache |-> pair.cache]
        ELSE IF lower(pair.mode) = "minor"
        THEN [raised |-> None, returned |-> <<MinorScale(pair.pitchObj)>>, cache |-> pair.cache]
        ELSE [raised |-> KeySignatureException, returned |-> <<>>, cache |-> pair.cache]

\* The outcome is the exception raised, or None, the scale returned and the
\* dictionary sharpsToPitch leaves
getScale(self, cache) ==
    LET pair == getPitchAndMode(self, cache)
    IN  IF pair.mode \in {None, "major"}
        THEN [raised |-> None, returned |-> <<MajorScale(pair.pitchObj)>>, cache |-> pair.cache]
        ELSE IF pair.mode \in {"minor"}
        THEN [raised |-> None, returned |-> <<MinorScale(pair.pitchObj)>>, cache |-> pair.cache]
        ELSE [raised |-> KeySignatureException, returned |-> <<>>, cache |-> pair.cache]

(***************************************************************************)
(* Specification SpecScale: getScale is called on a KeySignature of any    *)
(* number of sharps and any mode.                                          *)
(***************************************************************************)
InitScale ==
    /\ ks \in {KeySignature(n, m) : n \in SharpCounts, m \in CvModes}
    /\ kop = "idle"
    /\ karg = None
    /\ kret = None
    /\ kchanges = 0
    /\ kstale = <<>>
    /\ heldAcc = <<>>
    /\ ConvertIdle
    /\ SharpsIdle
    /\ pcDistribution = Silent
    /\ DetectIdle
    /\ WindowIdle
    /\ WeightsIdle

\* ks.getScale()
GetScale ==
    /\ LET got == getScale(ks, sharpsToPitchCache)
       IN  /\ kret' = [raised |-> got.raised, returned |-> got.returned]
           /\ sharpsToPitchCache' = got.cache
    /\ kop' = "getScale"
    /\ UNCHANGED <<ks, karg, kchanges, kstale, heldAcc>>
    /\ UNCHANGED <<convertVars, stpRet, stpCalls>>
    /\ UNCHANGED <<detectVars, windowVars, weightVars>>

NextScale == GetScale

SpecScale == InitScale /\ [][NextScale]_vars

\* C23: getScale raises KeySignatureException exactly when the mode is none
\* of unset, 'major' and 'minor', and then sharps and mode are as before;
\* otherwise it returns a major scale on the tonic of sharps (unset, 'major')
\* or a minor scale on the tonic of sharps + 3 ('minor')
C23_GetScaleByMode ==
    [][kop' = "getScale" =>
          /\ ks'.sharps = ks.sharps
          /\ ks'.mode = ks.mode
          /\ IF ks.mode \in {None, "major"}
             THEN /\ kret'.raised = None
                  /\ kret'.returned =
                        <<[type |-> "MajorScale", tonic |-> FifthsFromC(ks.sharps)]>>
             ELSE IF ks.mode = "minor"
             THEN /\ kret'.raised = None
                  /\ kret'.returned =
                        <<[type |-> "MinorScale", tonic |-> FifthsFromC(ks.sharps + 3)]>>
             ELSE /\ kret'.raised = KeySignatureException
                  /\ kret'.returned = <<>>]_vars

\* three sharps in minor: the minor scale on F sharp; and a mode written
\* 'Minor' is refused
C23_Witness ==
    /\ kop = "getScale"
    /\ \/ /\ ks = KeySignature(3, "minor")
          /\ kret.returned = <<[type |-> "MinorScale", tonic |-> PitchNamed("F", "sharp")]>>
       \/ /\ ks = KeySignature(3, "Minor")
          /\ kret.raised = KeySignatureException

(***************************************************************************)
(* Key.__init__ for a tonic given as a string.  A string is the sequence   *)
(* of its characters.  A Key is a KeySignature with a tonic, a type, a     *)
(* correlationCoefficient (<<>>: None) and a list alternateInterpretations.*)
(***************************************************************************)
\* c in s
contains(s, c) == \E i \in DOMAIN s : s[i] = c

\* re.sub(c, '', s)
removeAll(s, c) == SelectSeq(s, LAMBDA x : x # c)

\* s.lower()
lowerStr(s) == [i \in DOMAIN s |-> lower(s[i])]

\* pitch.Pitch(name): the first character is the step in either case, the
\* rest names the accidental
PitchFromName(name) ==
    PitchNamed(Steps[CHOOSE n \in 1..7 : lower(Steps[n]) = lower(name[1])],
               CASE Tail(name) = <<>> -> None
                 [] Tail(name) = <<"#">> -> "sharp"
                 [] Tail(name) = <<"#", "#">> -> "double-sharp"
                 [] Tail(name) = <<"-">> -> "flat"
                 [] Tail(name) = <<"-", "-">> -> "double-flat")

\* faulty variant: the mode read from the case of the name alone
modeAndTonicByCase(tonic, mode) ==
    IF mode = None
    THEN IF lowerStr(tonic) = tonic
         THEN [mode |-> "minor", tonic |-> removeAll(tonic, "m")]
         ELSE [mode |-> "major", tonic |-> removeAll(removeAll(tonic, "m"), "M")]
    ELSE [mode |-> lower(mode), tonic |-> tonic]

\* lines 837-851: the mode and the tonic after the marks m and M are read
modeAndTonic(tonic, mode) ==
    IF mode = None
    THEN IF contains(tonic, "m")
         THEN [mode |-> "minor", tonic |-> removeAll(tonic, "m")]
         ELSE IF contains(tonic, "M")
         THEN [mode |-> "major", tonic |-> removeAll(tonic, "M")]
         ELSE IF lowerStr(tonic) = tonic
         THEN [mode |-> "minor", tonic |-> tonic]
         ELSE [mode |-> "major", tonic |-> tonic]
    ELSE [mode |-> lower(mode), tonic |-> tonic]

\* Key(tonic, mode) for a string tonic: the object constructed
KeyInit(tonic, mode) ==
    LET read == modeAndTonic(tonic, mode)
        named == PitchFromName(read.tonic)
        sharps == pitchToSharps([classes |-> "Pitch", pitch |-> named], read.mode).sharps[1]
        self == KeySignature(sharps, read.mode)
    IN  [sharps |-> self.sharps,
         mode |-> setMode(self, read.mode).mode,
         alteredPitchesCached |-> self.alteredPitchesCached,
         tonic |-> named,
         type |-> read.mode,
         correlationCoefficient |-> <<>>,
         alternateInterpretations |-> <<>>]

(***************************************************************************)
(* Specification SpecKeyInit: Key(tonic) and Key(tonic, mode) for the      *)
(* names of pitches in either case, alone or marked m or M.  A marked name *)
(* comes without a mode.                                                   *)
(***************************************************************************)
TonicLetters == {"C", "D", "E", "F", "G", "A", "B", "c", "d", "e", "f", "g", "a", "b"}

TonicNames == {<<l>> \o a : l \in TonicLetters, a \in {<<>>, <<"#">>, <<"-">>}}

TonicMarks == {<<>>, <<"m">>, <<"M">>}

KeyModes == {None, "major", "minor", "Major", "Minor", "dorian"}

InitKeyInit ==
    /\ KeyIdle
    /\ pcDistribution = Silent
    /\ DetectIdle
    /\ WindowIdle
    /\ WeightsIdle

KeyConstruct(tonic, mode) ==
    /\ kop = "idle"
    /\ mode # None => ~contains(tonic, "m") /\ ~contains(tonic, "M")
    /\ ks' = KeyInit(tonic, mode)
    /\ kop' = "Key"
    /\ karg' = [tonic |-> tonic, mode |-> mode]
    /\ UNCHANGED <<kret, kchanges, kstale, heldAcc>>
    /\ UNCHANGED <<convertVars, sharpsVars>>
    /\ UNCHANGED <<detectVars, windowVars, weightVars>>

NextKeyInit ==
    \E name \in TonicNames : \E mark \in TonicMarks : \E mode \in KeyModes :
        KeyConstruct(name \o mark, mode)

SpecKeyInit == InitKeyInit /\ [][NextKeyInit]_vars

(***************************************************************************)
(* Claims about Key.__init__, checked under SpecKeyInit.                   *)
(***************************************************************************)
\* the name without its marks, and the sharps pitchToSharps gives for it
UnmarkedName(name) == SelectSeq(name, LAMBDA x : x \notin {"m", "M"})

SharpsOfName(name, mode) ==
    LetterIndex(UpperCase(name[1])) - 1
        + 7 * (CASE Tail(name) = <<>> -> 0 [] Tail(name) = <<"#">> -> 1 [] Tail(name) = <<"-">> -> -1)
        + ModeTerm(mode)

ModeAsGiven(mode) ==
    CASE mode \in {"major", "Major"} -> "major"
      [] mode \in {"minor", "Minor"} -> "minor"
      [] OTHER -> mode

MaxAlternates == 2

IndexError == "IndexError"

\* faulty variant: the test of line 890 left out
tonalCertainityCorrelationCoefficientUnguarded(self) ==
    LET focus == <<self.correlationCoefficient[1]>>
                     \o SelectSeq([k \in DOMAIN self.alternateInterpretations |->
                                      self.alternateInterpretations[k].correlationCoefficient[1]],
                                  LAMBDA cc : cc > 0)
    IN  IF Len(focus) < 2
        THEN [raised |-> IndexError, returned |-> <<>>]
        ELSE [raised |-> None, returned |-> <<(focus[1] * 1) + ((focus[1] - focus[2]) * 2)>>]

\* The outcome is the exception raised, or None, and the number returned.
\* focus is the Key's own score followed by the positive scores of the
\* alternates, and focus[1] of line 905 is its second entry
tonalCertainityCorrelationCoefficient(self) ==
    IF Len(self.alternateInterpretations) = 0
    THEN [raised |-> KeySignatureException, returned |-> <<>>]
    ELSE LET focus == <<self.correlationCoefficient[1]>>
                          \o SelectSeq([k \in DOMAIN self.alternateInterpretations |->
                                           self.alternateInterpretations[k].correlationCoefficient[1]],
                                       LAMBDA cc : cc > 0)
         IN  IF Len(focus) < 2
             THEN [raised |-> IndexError, returned |-> <<>>]
             ELSE [raised |-> None,
                   returned |-> <<(focus[1] * 1) + ((focus[1] - focus[2]) * 2)>>]

\* a method other than 'correlationCoefficient' falls through and returns None
tonalCertainty(self, method) ==
    IF method = "correlationCoefficient"
    THEN tonalCertainityCorrelationCoefficient(self)
    ELSE [raised |-> None, returned |-> <<>>]

(***************************************************************************)
(* Specification SpecCertainty: a Key as an analysis leaves it, its own    *)
(* score the best and up to MaxAlternates alternates in descending order   *)
(* of score, is asked for its tonalCertainty.                              *)
(***************************************************************************)
CertaintyScores == {-40, 0, 25, 60, 85}

Alternate(cc) == [KeyInit(<<"g">>, None) EXCEPT !.correlationCoefficient = <<cc>>]

RECURSIVE AlternatesOfLength(_)
\* the lists of n alternates in descending order of score
AlternatesOfLength(n) ==
    IF n = 0 THEN {<<>>}
    ELSE LET longer == {<<Alternate(cc)>> \o rest :
                            cc \in CertaintyScores, rest \in AlternatesOfLength(n - 1)}
         IN  {l \in longer :
                 Len(l) < 2 \/ l[2].correlationCoefficient[1] <= l[1].correlationCoefficient[1]}

AnalysedKeys ==
    {[KeyInit(<<"C">>, None) EXCEPT !.correlationCoefficient = <<top>>,
                                    !.alternateInterpretations = alternates] :
        top \in CertaintyScores,
        alternates \in UNION {AlternatesOfLength(n) : n \in 0..MaxAlternates}}

InitCertainty ==
    /\ ks \in {k \in AnalysedKeys :
                  k.alternateInterpretations = <<>>
                      \/ k.alternateInterpretations[1].correlationCoefficient[1]
                             <= k.correlationCoefficient[1]}
    /\ kop = "idle"
    /\ karg = None
    /\ kret = None
    /\ kchanges = 0
    /\ kstale = <<>>
    /\ heldAcc = <<>>
    /\ ConvertIdle
    /\ SharpsIdle
    /\ pcDistribution = Silent
    /\ DetectIdle
    /\ WindowIdle
    /\ WeightsIdle

\* ks.tonalCertainty(method)
TonalCertainty(method) ==
    /\ kret' = tonalCertainty(ks, method)
    /\ kop' = "tonalCertainty"
    /\ karg' = method
    /\ UNCHANGED <<ks, kchanges, kstale, heldAcc>>
    /\ UNCHANGED <<convertVars, sharpsVars>>
    /\ UNCHANGED <<detectVars, windowVars, weightVars>>

NextCertainty == \E method \in {"correlationCoefficient", "other"} : TonalCertainty(method)

SpecCertainty == InitCertainty /\ [][NextCertainty]_vars

(***************************************************************************)
(* Claims about tonalCertainty, checked under SpecCertainty.               *)
(***************************************************************************)
\* C25: tonalCertainty(method='correlationCoefficient') raises
\* KeySignatureException whenever alternateInterpretations is empty, and
\* the call leaves correlationCoefficient and alternateInterpretations as
\* they were
C25_NoAlternatesRaises ==
    [][(kop' = "tonalCertainty" /\ karg' = "correlationCoefficient"
            /\ ks.alternateInterpretations = <<>>) =>
          /\ kret'.raised = KeySignatureException
          /\ kret'.returned = <<>>
          /\ ks'.correlationCoefficient = ks.correlationCoefficient
          /\ ks'.alternateInterpretations = ks.alternateInterpretations]_vars

\* a Key with a score of 0.60 and no alternates, refused
C25_Witness ==
    /\ kop = "tonalCertainty"
    /\ karg = "correlationCoefficient"
    /\ ks.alternateInterpretations = <<>>
    /\ ks.correlationCoefficient = <<60>>
    /\ kret.raised = KeySignatureException

\* C26: for a Key whose alternateInterpretations is not empty and is in
\* descending order of score, tonalCertainty(method='correlationCoefficient')
\* returns top + 2 * (top - second), top the Key's own score and second the
\* score of the first alternate, whatever the signs of the alternates'
\* scores, and changes neither the Key nor its alternates
C26_CertaintyFormula ==
    [][(kop' = "tonalCertainty" /\ karg' = "correlationCoefficient"
            /\ ks.alternateInterpretations # <<>>) =>
          /\ kret'.raised = None
          /\ kret'.returned =
                <<ks.correlationCoefficient[1]
                    + 2 * (ks.correlationCoefficient[1]
                              - ks.alternateInterpretations[1].correlationCoefficient[1])>>
          /\ ks' = ks]_vars

(***************************************************************************)
(* Claim about the transposition of a detection, checked under Spec.       *)
(***************************************************************************)
\* one candidate scores above the other 23
UniqueBest(d) ==
    \E best \in Candidates :
        \A c \in Candidates \ {best} : ScoreOf(d, best) > ScoreOf(d, c)

\* C27: key detection is transposition-equivariant: if singleKeyDetect(d) is
\* (p, m) for a distribution d with a unique best candidate, then for every
\* r in 0..11 singleKeyDetect of d moved up by r semitones is
\* ((p + r) mod 12, m); and the major triad on r, counted equally, is
\* detected as (r, Major) for every r
C27_DetectionEquivariant ==
    op = "singleKeyDetect" =>
        /\ UniqueBest(pcDistribution) =>
              \A r \in 0..11 :
                  singleKeyDetect(Rotate(pcDistribution, r))
                      = <<(likelyKey[1] + r) % 12, likelyKey[2]>>
        /\ \A r \in 0..11 :
              pcDistribution = Triad(r, 1) => likelyKey = <<r, "Major">>

(***************************************************************************)
(* Specification SpecCallers: callers of sharpsToPitch that change the     *)
(* pitch they were returned.  A pitch with alias <<n>> is the object the   *)
(* dictionary holds under n, so a change of it is a change of the entry.   *)
(***************************************************************************)
\* the caller sets the accidental of the pitch the last call returned
CallerSetsAccidental(name) ==
    /\ stpCalls > 0
    /\ stpRet.obj.pitch.accidental # name
    /\ stpRet' = [stpRet EXCEPT !.obj.pitch.accidental = name]
    /\ sharpsToPitchCache' =
          IF stpRet.obj.alias # <<>>
          THEN [sharpsToPitchCache EXCEPT ![stpRet.obj.alias[1]].accidental = name]
          ELSE sharpsToPitchCache
    /\ UNCHANGED stpCalls
    /\ UNCHANGED <<convertVars, keySigVars>>
    /\ UNCHANGED <<detectVars, windowVars, weightVars>>

NextCallers ==
    \/ \E given \in SharpsGiven : SharpsToPitchCall(given)
    \/ \E name \in {"natural", "sharp"} : CallerSetsAccidental(name)

SpecCallers == InitSharps /\ [][NextCallers]_vars

\* C28: a pitch sharpsToPitch returned is independent of the cache: whatever
\* callers did to the pitches they were returned, the first for a count
\* included, every call of sharpsToPitch(s) returns the major tonic of s
C28_ReturnedPitchIndependent ==
    [][stpCalls' = stpCalls + 1 =>
          stpRet'.obj.pitch =
              FifthsFromC(IF stpRet'.given = <<>> THEN 0 ELSE stpRet'.given[1])]_vars

(***************************************************************************)
(* Claim about the sharps a transposition leaves, checked under SpecKeySig.*)
(***************************************************************************)
\* C29: for every number of sharps and every mode a KeySignature can hold,
\* transposing by a perfect unison leaves sharps as it was and transposing
\* up a perfect fifth adds exactly 1 to it
C29_UnisonAndFifth ==
    [][(kop' = "transpose" /\ karg'.value \in {"P1", "P5"}) =>
          LET reached == IF karg'.inPlace THEN ks'.sharps ELSE kret'[1].sharps
          IN  reached = ks.sharps + (IF karg'.value = "P5" THEN 1 ELSE 0)]_vars

(***************************************************************************)
(* Specification SpecKeyChange: a Key constructed from a name, whose       *)
(* sharps and mode are assigned and which is transposed, with the members  *)
(* it inherits from KeySignature.                                          *)
(***************************************************************************)
KeyNames == {<<"C">>, <<"f", "#">>, <<"B", "-">>, <<"E", "-", "m">>}

InitKeyChange ==
    /\ ks \in {KeyInit(name, None) : name \in KeyNames}
    /\ kop = "idle"
    /\ karg = None
    /\ kret = None
    /\ kchanges = 0
    /\ kstale = <<>>
    /\ heldAcc = <<>>
    /\ ConvertIdle
    /\ SharpsIdle
    /\ pcDistribution = Silent
    /\ DetectIdle
    /\ WindowIdle
    /\ WeightsIdle

SpecKeyChange == InitKeyChange /\ [][NextKeySig]_vars

\* the sharps pitchToSharps gives for the tonic and the mode of a Key
SharpsOfTonic(k) ==
    LetterIndex(k.tonic.step) - 1 + 7 * Semitones(k.tonic.accidental) + ModeTerm(k.mode)

\* C30: in every state reached from a constructed Key by transpositions, in
\* place or not, and assignments to sharps and mode, the Key's sharps is
\* pitchToSharps(tonic, mode) for its tonic and mode, and so is that of a
\* Key a transposition returned
C30_KeyAgreesWithTonic ==
    /\ ks.sharps = SharpsOfTonic(ks)
    /\ (kop = "transpose" /\ ~karg.inPlace) => kret[1].sharps = SharpsOfTonic(kret[1])

====
